---- MODULE Spec2Model ----
(***************************************************************************)
(* TerrainVer position generator: surface extraction, march-through        *)
(* ordering, narrow-point filter, Halton sampling and sprite placement.    *)
(*                                                                         *)
(* Two classes named PositionGenerator live in the repository:            *)
(*   "part_000"          src/unnamed/part_000 (okPoints, get2dPoint,       *)
(*                       getTerrainPointForSprite, two Halton counters)    *)
(*   "PositionGenerator" src/src/PositionGenerator.js (seed check,         *)
(*                       surface image, one Halton counter)                *)
(* The variable impl says which class a behaviour is about.                *)
(*                                                                         *)
(* Numbers.  Pixel coordinates are integers.  Halton values and the seed   *)
(* are rationals, kept as pairs <<numerator, denominator>> with a positive *)
(* denominator; the model computes them exactly (the doubles of the code   *)
(* are exact for base 2 and dyadic seeds).  Math.sqrt is monotonic and     *)
(* injective on the integers that occur, so distances are compared by      *)
(* their squares.  A read outside a typed array or an array yields         *)
(* Undefined, and every comparison with Undefined is false.                *)
(***************************************************************************)
EXTENDS Integers, Sequences, FiniteSets, TLC

\* ---------------------------------------------------------------- bounds
W == 5
H == 6
MaxIndex == 3

Instances == {1, 2}

\* ------------------------------------------------------------- constants
HALTON_BASE_X == 2
HALTON_BASE_Y == 3
CHAIN_BREAKING_DIST == 5
EDGE_HIGH == 100
EDGE_LOW == 50
MASK_INSIDE == 255
MIN_INSIDE == 7
DIST2_SORTED == 25

Undefined == -1

\* ------------------------------------------------------------- utilities
Abs(n) == IF n < 0 THEN 0 - n ELSE n

\* arr[i] of a JavaScript array held as a sequence (0-based index)
At(arr, i) == IF i >= 0 /\ i < Len(arr) THEN arr[i + 1] ELSE Undefined

\* data[(x + y * w) * 4] of an ImageData: img.data holds channel 0 of pixel
\* k at position k (0-based), so the read is in range iff 0 <= x + y*w < w*h
DataAt(img, x, y) ==
    LET k == x + y * img.width
    IN  IF k >= 0 /\ k < img.width * img.height THEN img.data[k] ELSE Undefined

\* ------------------------------------------------------------- distances
\* the square of distanceBetween(a, b)
distanceBetweenSq(a, b) ==
    (b[1] - a[1]) * (b[1] - a[1]) + (b[2] - a[2]) * (b[2] - a[2])

dist2(a, b) ==
    (b[1] - a[1]) * (b[1] - a[1]) + (b[2] - a[2]) * (b[2] - a[2])

\* the distance test alone, the slope test forgotten
distanceIsBreakingNoSlope(a, b) ==
    distanceBetweenSq(a, b) > CHAIN_BREAKING_DIST * CHAIN_BREAKING_DIST

distanceIsBreaking(a, b) ==
    LET diffX == Abs(a[1] - b[1])
        diffY == Abs(a[2] - b[2])
    IN  IF diffX < diffY - 1
        THEN TRUE
        ELSE distanceBetweenSq(a, b) > CHAIN_BREAKING_DIST * CHAIN_BREAKING_DIST

\* Array.prototype.sort with a comparator that orders by descending key:
\* a stable sort (ECMAScript 2019), so equal keys keep their relative order.
\* The key of a point is its x (by = "x") or its distance to c, compared by
\* its square (by = "distance").
KeyOf(by, c, p) ==
    IF by = "x" THEN p[1] ELSE distanceBetweenSq(c, p)

\* e put into the descending sequence acc, after the elements it ties with
InsertDesc(by, c, acc, e) ==
    LET n == Cardinality({j \in 1..Len(acc) : KeyOf(by, c, acc[j]) >= KeyOf(by, c, e)})
    IN  SubSeq(acc, 1, n) \o <<e>> \o SubSeq(acc, n + 1, Len(acc))

\* the same, but an element that ties with one already placed is lost
InsertDescDropTies(by, c, acc, e) ==
    IF \E j \in 1..Len(acc) : KeyOf(by, c, acc[j]) = KeyOf(by, c, e)
    THEN acc
    ELSE InsertDesc(by, c, acc, e)

RECURSIVE SortDescFrom(_, _, _, _, _)
SortDescFrom(by, c, arr, k, acc) ==
    IF k > Len(arr) THEN acc
    ELSE SortDescFrom(by, c, arr, k + 1, InsertDesc(by, c, acc, arr[k]))

RECURSIVE SortDescDropTiesFrom(_, _, _, _, _)
SortDescDropTiesFrom(by, c, arr, k, acc) ==
    IF k > Len(arr) THEN acc
    ELSE SortDescDropTiesFrom(by, c, arr, k + 1, InsertDescDropTies(by, c, acc, arr[k]))

SortDescDropTies(by, c, arr) == SortDescDropTiesFrom(by, c, arr, 1, <<>>)

SortDesc(by, c, arr) == SortDescFrom(by, c, arr, 1, <<>>)

\* ---------------------------------------------------------------- halton
RECURSIVE HaltonLoop(_, _, _, _)
\* result = rn / (fd / base), f = 1 / fd
HaltonLoop(rn, fd, i, base) ==
    IF i > 0
    THEN HaltonLoop(rn * base + (i % base), fd * base, i \div base, base)
    ELSE <<rn, fd \div base>>

halton(index, base) == HaltonLoop(0, base, index, base)

\* (nextRandomNb + seed) % 1.0 : the remainder has the sign of the dividend
AddSeedMod1(r, seed) ==
    LET n == r[1] * seed[2] + seed[1] * r[2]
        d == r[2] * seed[2]
    IN  IF n >= 0 THEN <<n % d, d>> ELSE <<0 - ((0 - n) % d), d>>

\* Math.floor(r * k)
FloorMul(r, k) == (r[1] * k) \div r[2]

\* --------------------------------------------------------------- terrain
\* The terrains: every column has no surface, an upper surface (edge rows
\* 1 and 2), a lower surface (edge row H - 1), or both.
Kinds == {"none", "top", "low", "both"}
HasTop(k) == k \in {"top", "both"}
HasLow(k) == k \in {"low", "both"}

Pixels == 0..(W * H - 1)
PX(k) == k % W
PY(k) == k \div W

EdgesOf(p) ==
    [k \in Pixels |->
        IF \/ HasTop(p[PX(k)]) /\ PY(k) \in {1, 2}
           \/ HasLow(p[PX(k)]) /\ PY(k) = H - 1
        THEN 255 ELSE 0]

MaskOf(p) ==
    [k \in Pixels |->
        IF \/ HasTop(p[PX(k)]) /\ PY(k) >= 1
           \/ HasLow(p[PX(k)]) /\ PY(k) >= H - 1
        THEN 255 ELSE 0]

\* the surface image the convolution hands to src/PositionGenerator.js
SurfaceOf(p) ==
    [k \in Pixels |->
        IF \/ HasTop(p[PX(k)]) /\ PY(k) = 1
           \/ HasLow(p[PX(k)]) /\ PY(k) = H - 1
        THEN 255 ELSE 0]

TerrainOf(p) ==
    [width   |-> W,
     height  |-> H,
     mask    |-> [width |-> W, height |-> H, data |-> MaskOf(p)],
     edgesY  |-> EdgesOf(p),
     surface |-> [width |-> W, height |-> H, data |-> SurfaceOf(p)]]

Profiles == [0..(W - 1) -> Kinds]

\* ------------------------------------------------------------- variables
VARIABLES
    impl,           \* which class: "part_000" or "PositionGenerator"
    pc,             \* "new", "march", "ready", "threw"
    terrainShape,   \* the constructor's terrainShape argument
    options,        \* this.options
    surfacePoints,  \* the constructor's surfacePoints array
    curr,           \* the constructor's curr
    visited,        \* the constructor's visited array
    okPoints,       \* this.okPoints (PositionGenerator: this.surfacePoints)
    innerWidth,     \* this.innerWidth
    innerHeight,    \* this.innerHeight
    haltonIndexX,   \* this.haltonIndexX of each instance (this.haltonIndex)
    haltonIndexY,   \* this.haltonIndexY of each instance
    extracted,      \* history: surfacePoints as the extraction loop left it
    step,           \* history: the last iteration of the ordering loop
    evalX,          \* history: the indexes halton was evaluated at, base 2
    evalY,          \* history: the indexes halton was evaluated at, base 3
    calls,          \* history: per instance, the calls made so far, by method
    ret             \* history: per instance, the last call and what it returned

vars == <<impl, pc, terrainShape, options, surfacePoints, curr, visited,
          okPoints, innerWidth, innerHeight, haltonIndexX, haltonIndexY,
          extracted, step, evalX, evalY, calls, ret>>

built == <<impl, pc, terrainShape, options, surfacePoints, curr, visited,
           okPoints, innerWidth, innerHeight, extracted, step>>

queried == <<haltonIndexX, haltonIndexY, evalX, evalY, calls, ret>>

\* --------------------------------------------------------------- options
Options(mt, mr, mb, ml, minWidth, maxTry, seed) ==
    [marginTop |-> mt, marginRight |-> mr, marginBottom |-> mb,
     marginLeft |-> ml, surfacePointMinWidth |-> minWidth,
     terrainPointMaxTry |-> maxTry, seed |-> seed]

SeedIsInvalid(seed) == seed[1] < 0 \/ seed[1] >= seed[2]

NoStep == [taken |-> FALSE]
NoCall == [op |-> "none", n |-> 0, priorX |-> 0, priorY |-> 0, ix0 |-> 0,
           iy0 |-> 0, sw |-> 0, sh |-> 0,
           result |-> [kind |-> "none", pt |-> <<>>], tried |-> <<>>]
NoCalls == [getSurfacePoint |-> 0, get2dPoint |-> 0, draws |-> 0]

InitWith(cls, p, opts) ==
    /\ impl = cls
    /\ pc = "new"
    /\ terrainShape = TerrainOf(p)
    /\ options = opts
    /\ surfacePoints = <<>>
    /\ curr = <<0, 0>>
    /\ visited = <<>>
    /\ okPoints = <<>>
    /\ innerWidth = 0
    /\ innerHeight = 0
    /\ haltonIndexX = [g \in Instances |-> 0]
    /\ haltonIndexY = [g \in Instances |-> 0]
    /\ extracted = <<>>
    /\ step = NoStep
    /\ evalX = [g \in Instances |-> <<>>]
    /\ evalY = [g \in Instances |-> <<>>]
    /\ calls = [g \in Instances |-> NoCalls]
    /\ ret = [g \in Instances |-> NoCall]

\* ------------------------------------------------------------ extraction
\* the two nested scan loops: rows outer, columns inner, so the points come
\* out in row-major order
RECURSIVE ScanEdges(_, _, _, _, _)
ScanEdges(edgesY, opts, x, y, acc) ==
    LET w == terrainShape.mask.width
        h == terrainShape.mask.height
        img == [width |-> w, height |-> h, data |-> edgesY]
        here == DataAt(img, x, y)
        above == DataAt(img, x, y - 1)
        isSurface == /\ here # Undefined /\ here > EDGE_HIGH
                     /\ above # Undefined /\ above < EDGE_LOW
    IN  IF ~(y < h - opts.marginBottom) THEN acc
        ELSE IF ~(x < w - opts.marginRight)
             THEN ScanEdges(edgesY, opts, opts.marginLeft, y + 1, acc)
             ELSE ScanEdges(edgesY, opts, x + 1, y,
                            IF isSurface THEN Append(acc, <<x, y>>) ELSE acc)

RECURSIVE ScanSurface(_, _, _, _, _)
ScanSurface(surfaceImg, opts, x, y, acc) ==
    LET w == surfaceImg.width
        h == surfaceImg.height
        here == DataAt(surfaceImg, x, y)
    IN  IF ~(y < h - opts.marginBottom) THEN acc
        ELSE IF ~(x < w - opts.marginRight)
             THEN ScanSurface(surfaceImg, opts, opts.marginLeft, y + 1, acc)
             ELSE ScanSurface(surfaceImg, opts, x + 1, y,
                              IF here # 0 THEN Append(acc, <<x, y>>) ELSE acc)

\* constructor of part_000, up to the ordering loop: no check of the options
Construct ==
    /\ impl = "part_000"
    /\ pc = "new"
    /\ LET pts == ScanEdges(terrainShape.edgesY, options,
                            options.marginLeft, options.marginTop, <<>>)
       IN  /\ surfacePoints' = pts
           /\ extracted' = pts
    /\ innerWidth' = terrainShape.mask.width - options.marginLeft - options.marginRight
    /\ innerHeight' = terrainShape.mask.height - options.marginTop - options.marginBottom
    /\ curr' = <<0, 0>>
    /\ visited' = <<>>
    /\ pc' = "march"
    /\ UNCHANGED <<impl, terrainShape, options, okPoints, step>>
    /\ UNCHANGED queried

\* constructor of src/PositionGenerator.js, up to the ordering loop
ConstructChecked ==
    /\ impl = "PositionGenerator"
    /\ pc = "new"
    /\ IF SeedIsInvalid(options.seed)
       THEN /\ pc' = "threw"
            /\ UNCHANGED <<surfacePoints, extracted, curr, visited>>
       ELSE /\ LET pts == ScanSurface(terrainShape.surface, options,
                                      options.marginLeft, options.marginTop, <<>>)
               IN  /\ surfacePoints' = pts
                   /\ extracted' = pts
            /\ curr' = <<0, terrainShape.surface.height - 1>>
            /\ visited' = <<>>
            /\ pc' = "march"
    /\ UNCHANGED <<impl, terrainShape, options, okPoints, innerWidth,
                   innerHeight, step>>
    /\ UNCHANGED queried

\* -------------------------------------------------------------- ordering
\* surfacePoints.sort((a, b) => distanceBetween(curr, b) - distanceBetween(curr, a))
SortByDistance(c, arr) == SortDesc("distance", c, arr)

\* surfacePoints.sort((a, b) => b[0] - a[0])
SortByX(arr) == SortDesc("x", <<0, 0>>, arr)

\* the array as the two sorts of one iteration leave it
SortForStep(c, arr) ==
    LET byDist == SortByDistance(c, arr)
    IN  IF distanceIsBreaking(c, byDist[Len(byDist)])
        THEN <<byDist, SortByX(byDist)>>
        ELSE <<byDist, byDist>>

\* the array as the conditional sort of src/PositionGenerator.js leaves it
SortIfFar(c, arr) ==
    IF dist2(c, arr[Len(arr)]) > DIST2_SORTED
    THEN SortDesc("distance", c, arr)
    ELSE arr

Last(arr) == arr[Len(arr)]
\* the array after surfacePoints.pop()
Popped(arr) == SubSeq(arr, 1, Len(arr) - 1)

\* one iteration of the while loop of part_000
MarchStep ==
    /\ impl = "part_000"
    /\ pc = "march"
    /\ Len(surfacePoints) > 0
    /\ \E s \in {SortForStep(curr, surfacePoints)} :
          /\ curr' = Last(s[2])
          /\ surfacePoints' = Popped(s[2])
          /\ visited' = Append(visited, Last(s[2]))
          /\ step' = [taken |-> TRUE, from |-> curr, remaining |-> surfacePoints,
                      nearest |-> Last(s[1]), picked |-> Last(s[2])]
    /\ UNCHANGED <<impl, pc, terrainShape, options, okPoints, innerWidth,
                   innerHeight, extracted>>
    /\ UNCHANGED queried

\* one iteration of the while loop of src/PositionGenerator.js
MarchStepChecked ==
    /\ impl = "PositionGenerator"
    /\ pc = "march"
    /\ Len(surfacePoints) > 0
    /\ \E s \in {SortIfFar(curr, surfacePoints)} :
          /\ curr' = Last(s)
          /\ surfacePoints' = Popped(s)
          /\ visited' = Append(visited, Last(s))
          /\ step' = [taken |-> TRUE, from |-> curr, remaining |-> surfacePoints,
                      nearest |-> Last(s), picked |-> Last(s)]
    /\ UNCHANGED <<impl, pc, terrainShape, options, okPoints, innerWidth,
                   innerHeight, extracted>>
    /\ UNCHANGED queried

\* ---------------------------------------------------- narrow-point filter
\* Math.floor in the place of Math.ceil
CeilHalfFloor(k) == k \div 2
\* Math.ceil(k / 2.0)
CeilHalf(k) == (k + 1) \div 2

RECURSIVE NeighbourhoodOk(_, _, _, _)
\* the inner for loop, from nbg on
NeighbourhoodOk(walk, c, halfWidth, nbg) ==
    IF ~(nbg < c + halfWidth) THEN TRUE
    ELSE LET nbgNext == nbg + 1
         IN  IF \/ nbg < 0
                \/ nbgNext >= Len(walk)
                \/ distanceIsBreaking(At(walk, nbg), At(walk, nbgNext))
             THEN FALSE
             ELSE NeighbourhoodOk(walk, c, halfWidth, nbg + 1)

RECURSIVE FilterLoop(_, _, _, _)
\* the outer for loop, from index c on
FilterLoop(walk, halfWidth, c, acc) ==
    IF ~(c < Len(walk)) THEN acc
    ELSE FilterLoop(walk, halfWidth, c + 1,
                    IF NeighbourhoodOk(walk, c, halfWidth, c - halfWidth)
                    THEN Append(acc, At(walk, c)) ELSE acc)

HalfWidth(opts) == CeilHalf(opts.surfacePointMinWidth - 1)

\* the rest of the constructor of part_000, once the ordering loop has ended
FilterNarrow ==
    /\ impl = "part_000"
    /\ pc = "march"
    /\ Len(surfacePoints) = 0
    /\ okPoints' = FilterLoop(visited, HalfWidth(options), 0, <<>>)
    /\ haltonIndexX' = [g \in Instances |-> 0]
    /\ haltonIndexY' = [g \in Instances |-> 0]
    /\ pc' = "ready"
    /\ UNCHANGED <<impl, terrainShape, options, surfacePoints, curr, visited,
                   innerWidth, innerHeight, extracted, step>>
    /\ UNCHANGED <<evalX, evalY, calls, ret>>

\* the rest of the constructor of src/PositionGenerator.js:
\* this.surfacePoints = visited; this.haltonIndex = 0
FinishChecked ==
    /\ impl = "PositionGenerator"
    /\ pc = "march"
    /\ Len(surfacePoints) = 0
    /\ okPoints' = visited
    /\ haltonIndexX' = [g \in Instances |-> 0]
    /\ pc' = "ready"
    /\ UNCHANGED <<impl, terrainShape, options, surfacePoints, curr, visited,
                   innerWidth, innerHeight, extracted, step>>
    /\ UNCHANGED <<haltonIndexY, evalX, evalY, calls, ret>>

\* --------------------------------------------------------------- queries
\* i++ : the value the counter holds afterwards
NextIndexStuck(i) == i
NextIndex(i) == i + 1

ResultPoint(p) == [kind |-> "point", pt |-> p]
ResultUndefined == [kind |-> "undefined", pt |-> <<>>]
ResultFalse == [kind |-> "false", pt |-> <<>>]

\* okPoints[Math.floor(nextRandomNb * okPoints.length)] with the counter at ix
SurfacePointAt(ix) ==
    LET nextRandomNb == AddSeedMod1(halton(ix, HALTON_BASE_X), options.seed)
        k == FloorMul(nextRandomNb, Len(okPoints))
    IN  IF k >= 0 /\ k < Len(okPoints)
        THEN ResultPoint(okPoints[k + 1])
        ELSE ResultUndefined

\* the point get2dPoint returns with the counters at ix and iy
Point2dAt(ix, iy) ==
    LET nextRandomNbX == AddSeedMod1(halton(ix, HALTON_BASE_X), options.seed)
        nextRandomNbY == AddSeedMod1(halton(iy, HALTON_BASE_Y), options.seed)
    IN  <<options.marginLeft + FloorMul(nextRandomNbX, innerWidth),
          options.marginTop + FloorMul(nextRandomNbY, innerHeight)>>

\* get2dPoint that leaves haltonIndexX alone
Get2dPointKeepsX(ix, iy) ==
    [pt |-> Point2dAt(ix, iy), ix |-> ix, iy |-> NextIndex(iy)]

\* get2dPoint: the point returned and the two counters afterwards
Get2dPointFrom(ix, iy) ==
    [pt |-> Point2dAt(ix, iy), ix |-> NextIndex(ix), iy |-> NextIndex(iy)]

\* the eight cardinalPoints of the rectangle at topLeft
CardinalPoints(topLeft, spriteWidth, spriteHeight) ==
    <<
      <<topLeft[1], topLeft[2]>>,
      <<topLeft[1] + (spriteWidth \div 2), topLeft[2]>>,
      <<topLeft[1] + spriteWidth, topLeft[2]>>,
      <<topLeft[1] + spriteWidth, topLeft[2] + (spriteHeight \div 2)>>,
      <<topLeft[1] + spriteWidth, topLeft[2] + spriteHeight>>,
      <<topLeft[1] + (spriteWidth \div 2), topLeft[2] + spriteHeight>>,
      <<topLeft[1], topLeft[2] + spriteHeight>>,
      <<topLeft[1], topLeft[2] + (spriteHeight \div 2)>>
    >>

\* isInside once the for loop over cardinalPoints has ended
CountInside(topLeft, spriteWidth, spriteHeight) ==
    LET cp == CardinalPoints(topLeft, spriteWidth, spriteHeight)
    IN  Cardinality({i \in 1..8 :
            DataAt(terrainShape.mask, cp[i][1], cp[i][2]) = MASK_INSIDE})

\* the loop condition with <= in the place of <
TryAgainOnceMore(nbTry) == nbTry <= options.terrainPointMaxTry
\* while (nbTry < this.options.terrainPointMaxTry)
TryAgain(nbTry) == nbTry < options.terrainPointMaxTry

RECURSIVE SpriteLoop(_, _, _, _, _, _)
\* getTerrainPointForSprite from the loop test on: what it returns, the
\* counters afterwards and the candidates it drew
SpriteLoop(nbTry, ix, iy, spriteWidth, spriteHeight, tried) ==
    IF ~TryAgain(nbTry)
    THEN [result |-> ResultFalse, ix |-> ix, iy |-> iy, tried |-> tried]
    ELSE LET drawn == Get2dPointFrom(ix, iy)
             isInside == CountInside(drawn.pt, spriteWidth, spriteHeight)
             seen == Append(tried, [pt |-> drawn.pt, inside |-> isInside,
                                    ix |-> ix, iy |-> iy])
         IN  IF isInside >= MIN_INSIDE
             THEN [result |-> ResultPoint(drawn.pt), ix |-> drawn.ix,
                   iy |-> drawn.iy, tried |-> seen]
             ELSE SpriteLoop(nbTry + 1, drawn.ix, drawn.iy,
                             spriteWidth, spriteHeight, seen)

SpriteSizes == {<<1, 1>>, <<2, 2>>}

Indexes(tried, axis) == [k \in 1..Len(tried) |-> IF axis = "x" THEN tried[k].ix ELSE tried[k].iy]

CallRecord(g, name, sw, sh, result, tried) ==
    [op |-> name,
     n |-> IF name = "getSurfacePoint" THEN calls[g].getSurfacePoint + 1
           ELSE IF name = "get2dPoint" THEN calls[g].get2dPoint + 1 ELSE 0,
     priorX |-> calls[g].getSurfacePoint + calls[g].draws,
     priorY |-> calls[g].draws,
     ix0 |-> haltonIndexX[g], iy0 |-> haltonIndexY[g],
     sw |-> sw, sh |-> sh, result |-> result, tried |-> tried]

\* getSurfacePoint of part_000
GetSurfacePoint(g) ==
    /\ impl = "part_000"
    /\ pc = "ready"
    /\ haltonIndexX[g] < MaxIndex
    /\ haltonIndexX' = [haltonIndexX EXCEPT ![g] = NextIndex(@)]
    /\ evalX' = [evalX EXCEPT ![g] = Append(@, haltonIndexX[g])]
    /\ calls' = [calls EXCEPT ![g].getSurfacePoint = @ + 1]
    /\ ret' = [ret EXCEPT ![g] = CallRecord(g, "getSurfacePoint", 0, 0,
                                            SurfacePointAt(haltonIndexX[g]), <<>>)]
    /\ UNCHANGED <<haltonIndexY, evalY>>
    /\ UNCHANGED built

\* getSurfacePoint of src/PositionGenerator.js (this.haltonIndex is held in
\* haltonIndexX, this.surfacePoints in okPoints)
GetSurfacePointChecked(g) ==
    /\ impl = "PositionGenerator"
    /\ pc = "ready"
    /\ haltonIndexX[g] < MaxIndex
    /\ haltonIndexX' = [haltonIndexX EXCEPT ![g] = NextIndex(@)]
    /\ evalX' = [evalX EXCEPT ![g] = Append(@, haltonIndexX[g])]
    /\ calls' = [calls EXCEPT ![g].getSurfacePoint = @ + 1]
    /\ ret' = [ret EXCEPT ![g] = CallRecord(g, "getSurfacePoint", 0, 0,
                                            SurfacePointAt(haltonIndexX[g]), <<>>)]
    /\ UNCHANGED <<haltonIndexY, evalY>>
    /\ UNCHANGED built

Get2dPoint(g) ==
    /\ impl = "part_000"
    /\ pc = "ready"
    /\ haltonIndexX[g] < MaxIndex
    /\ \E drawn \in {Get2dPointFrom(haltonIndexX[g], haltonIndexY[g])} :
          /\ haltonIndexX' = [haltonIndexX EXCEPT ![g] = drawn.ix]
          /\ haltonIndexY' = [haltonIndexY EXCEPT ![g] = drawn.iy]
          /\ ret' = [ret EXCEPT ![g] = CallRecord(g, "get2dPoint", 0, 0,
                                                  ResultPoint(drawn.pt), <<>>)]
    /\ evalX' = [evalX EXCEPT ![g] = Append(@, haltonIndexX[g])]
    /\ evalY' = [evalY EXCEPT ![g] = Append(@, haltonIndexY[g])]
    /\ calls' = [calls EXCEPT ![g].get2dPoint = @ + 1, ![g].draws = @ + 1]
    /\ UNCHANGED built

GetTerrainPointForSprite(g, spriteWidth, spriteHeight) ==
    /\ impl = "part_000"
    /\ pc = "ready"
    /\ haltonIndexX[g] < MaxIndex
    /\ \E out \in {SpriteLoop(0, haltonIndexX[g], haltonIndexY[g],
                             spriteWidth, spriteHeight, <<>>)} :
          /\ haltonIndexX' = [haltonIndexX EXCEPT ![g] = out.ix]
          /\ haltonIndexY' = [haltonIndexY EXCEPT ![g] = out.iy]
          /\ evalX' = [evalX EXCEPT ![g] = @ \o Indexes(out.tried, "x")]
          /\ evalY' = [evalY EXCEPT ![g] = @ \o Indexes(out.tried, "y")]
          /\ calls' = [calls EXCEPT ![g].draws = @ + Len(out.tried)]
          /\ ret' = [ret EXCEPT ![g] = CallRecord(g, "getTerrainPointForSprite",
                                                  spriteWidth, spriteHeight,
                                                  out.result, out.tried)]
    /\ UNCHANGED built

\* ------------------------------------------------------- the whole program
AllTop == [x \in 0..(W - 1) |-> "top"]
NoSurface == [x \in 0..(W - 1) |-> "none"]
Steps == [x \in 0..(W - 1) |-> IF x < 2 THEN "low" ELSE "top"]

Margins == {<<0, 0, 0, 0>>, <<1, 1, 1, 1>>}

Init ==
    \/ \E p \in {AllTop, NoSurface, Steps}, m \in Margins, minWidth \in {2, 4},
          maxTry \in {0 - 1, 0, 2}, s \in {<<0 - 1, 2>>, <<0, 1>>, <<3, 4>>} :
          InitWith("part_000", p,
                   Options(m[1], m[2], m[3], m[4], minWidth, maxTry, s))
    \/ \E p \in {AllTop, NoSurface}, s \in {<<0, 1>>, <<3, 2>>} :
          InitWith("PositionGenerator", p, Options(0, 0, 0, 0, 4, 0, s))

Next ==
    \/ Construct
    \/ ConstructChecked
    \/ MarchStep
    \/ MarchStepChecked
    \/ FilterNarrow
    \/ FinishChecked
    \/ \E g \in Instances : GetSurfacePoint(g)
    \/ \E g \in Instances : GetSurfacePointChecked(g)
    \/ \E g \in Instances : Get2dPoint(g)
    \/ \E g \in Instances, size \in SpriteSizes :
          GetTerrainPointForSprite(g, size[1], size[2])

Spec == Init /\ [][Next]_vars

\* ------------------------------------------------- construction only
OrderWidths == {1, 2, 4}

InitOrder ==
    \/ \E p \in Profiles, m \in OrderWidths :
          InitWith("part_000", p, Options(0, 0, 0, 0, m, 0, <<0, 1>>))
    \/ \E p \in Profiles, s \in {<<0, 1>>, <<3, 2>>} :
          InitWith("PositionGenerator", p, Options(0, 0, 0, 0, 4, 0, s))

NextOrder ==
    \/ Construct
    \/ ConstructChecked
    \/ MarchStep
    \/ MarchStepChecked
    \/ FilterNarrow
    \/ FinishChecked

SpecOrder == InitOrder /\ [][NextOrder]_vars

\* ------------------------------------------------------------ properties
Count(p, arr) == Cardinality({i \in 1..Len(arr) : arr[i] = p})
Elems(arr) == {arr[i] : i \in 1..Len(arr)}

\* the breaking test as the specification words it
StepIsBreaking(a, b) ==
    \/ Abs(a[1] - b[1]) < Abs(a[2] - b[2]) - 1
    \/ (a[1] - b[1]) * (a[1] - b[1]) + (a[2] - b[2]) * (a[2] - b[2]) > 25

\* C1: at every point of the ordering loop the walk and the points still to
\* place hold together exactly the extracted points (same length, same
\* multiplicity of every point); every iteration leaves one point fewer to
\* place, so the loop ends after one iteration per extracted point, with a
\* walk that is a permutation of the input
ChainOrdererPreservesPoints ==
    /\ step.taken =>
        /\ Len(surfacePoints) = Len(step.remaining) - 1
        /\ Len(visited) >= 1
    /\ pc \in {"march", "ready"} =>
        /\ Len(visited) + Len(surfacePoints) = Len(extracted)
        /\ \A p \in Elems(extracted) \cup Elems(visited) \cup Elems(surfacePoints) :
              Count(p, visited) + Count(p, surfacePoints) = Count(p, extracted)
        /\ pc = "ready" =>
              /\ Len(surfacePoints) = 0
              /\ Len(visited) = Len(extracted)

\* an iteration of the ordering loop that had to choose between two
\* remaining points at the same, minimum distance from current, with two
\* remaining points of equal x
ChainOrdererTiesWitness ==
    /\ impl = "part_000"
    /\ step.taken
    /\ Len(visited) >= 2
    /\ \E i, j \in 1..Len(step.remaining) :
          /\ i # j
          /\ dist2(step.from, step.remaining[i]) = dist2(step.from, step.remaining[j])
          /\ \A k \in 1..Len(step.remaining) :
                dist2(step.from, step.remaining[i]) <= dist2(step.from, step.remaining[k])
    /\ \E i, j \in 1..Len(step.remaining) :
          i # j /\ step.remaining[i][1] = step.remaining[j][1]

\* C9: in every iteration of the ordering loop of part_000 the last element
\* after the sort by distance is a remaining point at minimum distance from
\* current; when the step to it is not breaking it is the point appended,
\* and when it is breaking the point appended is a remaining point of
\* minimum x
MarchPicksNearestOrLeftmost ==
    (impl = "part_000" /\ step.taken) =>
        LET R == Elems(step.remaining)
            n == step.nearest
        IN  /\ n \in R
            /\ \A q \in R : dist2(step.from, n) <= dist2(step.from, q)
            /\ step.picked \in R
            /\ step.picked = Last(visited)
            /\ IF StepIsBreaking(step.from, n)
               THEN \A q \in R : step.picked[1] <= q[1]
               ELSE step.picked = n

\* an iteration whose nearest point is breaking by slope alone and is not
\* the point appended
MarchBreakWitness ==
    /\ impl = "part_000"
    /\ step.taken
    /\ step.from # <<0, 0>>
    /\ StepIsBreaking(step.from, step.nearest)
    /\ dist2(step.from, step.nearest) <= 25
    /\ step.picked # step.nearest

\* an iteration whose nearest point is not breaking although another
\* remaining point lies further left
MarchNearestWitness ==
    /\ impl = "part_000"
    /\ step.taken
    /\ ~StepIsBreaking(step.from, step.nearest)
    /\ \E q \in Elems(step.remaining) : q[1] < step.picked[1]

\* C8: okPoints holds, in the order of visited, exactly the points visited[i]
\* such that for every d in [i - halfWidth, i + halfWidth - 1] both d and
\* d + 1 are indexes of visited and the step visited[d] -> visited[d+1] is
\* not breaking; a point with fewer than halfWidth neighbours on a side is
\* not in okPoints
ClaimHalfWidth ==
    LET m == options.surfacePointMinWidth - 1
    IN  CHOOSE k \in (0 - 1)..(m + 1) : 2 * k >= m /\ 2 * (k - 1) < m

ClaimAccepts(i) ==
    \A d \in (i - ClaimHalfWidth)..(i + ClaimHalfWidth - 1) :
        /\ d >= 0
        /\ d + 1 <= Len(visited) - 1
        /\ ~StepIsBreaking(visited[d + 1], visited[d + 2])

NarrowFilterKeepsWideOnly ==
    (impl = "part_000" /\ pc = "ready") =>
        LET acc == {i \in 0..(Len(visited) - 1) : ClaimAccepts(i)}
        IN  /\ Len(okPoints) = Cardinality(acc)
            /\ \A k \in 1..Len(okPoints) :
                  okPoints[k] = visited[1 + CHOOSE i \in acc :
                                           Cardinality({j \in acc : j < i}) = k - 1]
            /\ \A i \in 0..(Len(visited) - 1) :
                  (visited[i + 1] \in Elems(okPoints)) <=> (i \in acc)
            /\ \A i \in 0..(Len(visited) - 1) :
                  (i < ClaimHalfWidth \/ Len(visited) - 1 - i < ClaimHalfWidth)
                      => visited[i + 1] \notin Elems(okPoints)

\* a filtered walk, halfWidth 2, with a point kept and a point that has two
\* neighbours on each side and is dropped for a breaking step
NarrowFilterWitness ==
    /\ impl = "part_000"
    /\ pc = "ready"
    /\ ClaimHalfWidth = 2
    /\ Len(okPoints) > 0
    /\ \E i \in 2..(Len(visited) - 3) : visited[i + 1] \notin Elems(okPoints)

\* ------------------------------------------------- properties of queries
Made(g, name) == ret[g].op = name

\* C2: every point get2dPoint returns lies in
\* [marginLeft, width - marginRight) x [marginTop, height - marginBottom)
Get2dPointWithinMargins ==
    \A g \in Instances :
        Made(g, "get2dPoint") =>
            LET p == ret[g].result.pt
            IN  /\ options.marginLeft <= p[1]
                /\ p[1] < terrainShape.mask.width - options.marginRight
                /\ options.marginTop <= p[2]
                /\ p[2] < terrainShape.mask.height - options.marginBottom

\* C3: a call of getTerrainPointForSprite draws at most terrainPointMaxTry
\* candidates (none when terrainPointMaxTry <= 0), each with get2dPoint; it
\* returns false exactly when no candidate drawn had 7 of its 8 probes
\* counted inside, and otherwise the first candidate that reached 7, which
\* is the last one drawn
SpriteSearchIsBounded ==
    \A g \in Instances :
        Made(g, "getTerrainPointForSprite") =>
            LET t == ret[g].tried
                budget == IF options.terrainPointMaxTry > 0
                          THEN options.terrainPointMaxTry ELSE 0
            IN  /\ Len(t) <= budget
                /\ haltonIndexX[g] = ret[g].ix0 + Len(t)
                /\ haltonIndexY[g] = ret[g].iy0 + Len(t)
                /\ \A k \in 1..Len(t) :
                      /\ t[k].pt = Point2dAt(ret[g].ix0 + k - 1, ret[g].iy0 + k - 1)
                      /\ t[k].inside = CountInside(t[k].pt, ret[g].sw, ret[g].sh)
                /\ (ret[g].result.kind = "false") <=> (\A k \in 1..Len(t) : t[k].inside < 7)
                /\ ret[g].result.kind \in {"false", "point"}
                /\ ret[g].result.kind = "point" =>
                      /\ Len(t) >= 1
                      /\ ret[g].result.pt = t[Len(t)].pt
                      /\ t[Len(t)].inside >= 7
                      /\ \A k \in 1..(Len(t) - 1) : t[k].inside < 7

\* a search that rejected its first candidate and returned its second
SpriteSecondTryWitness ==
    \E g \in Instances :
        /\ Made(g, "getTerrainPointForSprite")
        /\ ret[g].result.kind = "point"
        /\ Len(ret[g].tried) = 2

\* a search that used up its budget of two candidates and returned false
SpriteExhaustedWitness ==
    \E g \in Instances :
        /\ Made(g, "getTerrainPointForSprite")
        /\ ret[g].result.kind = "false"
        /\ Len(ret[g].tried) = 2

\* C4 as claimed: the n-th call of getSurfacePoint, and the n-th call of
\* get2dPoint, return the same point on two instances built from the same
\* inputs, whatever other calls came before
SameCallCountSamePoint ==
    \A g, h \in Instances :
        (/\ ret[g].op \in {"getSurfacePoint", "get2dPoint"}
         /\ ret[g].op = ret[h].op
         /\ ret[g].n = ret[h].n)
            => ret[g].result = ret[h].result

\* C4 as amended: on two instances built from the same inputs, a call of
\* getSurfacePoint returns the same point when the same number of X-axis
\* draws (getSurfacePoint calls and get2dPoint draws, those of
\* getTerrainPointForSprite included) came before it, and a call of
\* get2dPoint when moreover the same number of get2dPoint draws came before
SameDrawCountSamePoint ==
    \A g, h \in Instances :
        (/\ ret[g].op \in {"getSurfacePoint", "get2dPoint"}
         /\ ret[g].op = ret[h].op
         /\ ret[g].priorX = ret[h].priorX
         /\ ret[g].op = "get2dPoint" => ret[g].priorY = ret[h].priorY)
            => ret[g].result = ret[h].result

\* two instances whose last getSurfacePoint calls differ in their rank among
\* the getSurfacePoint calls but follow the same number of X-axis draws, on
\* a terrain with several points to choose from
SameDrawCountWitness ==
    \E g, h \in Instances :
        /\ Made(g, "getSurfacePoint")
        /\ Made(h, "getSurfacePoint")
        /\ ret[g].n # ret[h].n
        /\ ret[g].priorX = ret[h].priorX
        /\ ret[g].result.kind = "point"
        /\ Len(okPoints) >= 2
        /\ SurfacePointAt(0) # SurfacePointAt(1)

\* C5: the two counters never decrease, and every evaluation of halton on an
\* axis is at an index above every index used before on that axis
IndexesIncrease(evals, counter) ==
    /\ \A i, j \in 1..Len(evals) : i < j => evals[i] < evals[j]
    /\ \A i \in 1..Len(evals) : evals[i] < counter

HaltonIndexesOnlyGrow ==
    /\ [](\A g \in Instances :
            /\ IndexesIncrease(evalX[g], haltonIndexX[g])
            /\ IndexesIncrease(evalY[g], haltonIndexY[g]))
    /\ [][\A g \in Instances :
            /\ haltonIndexX'[g] >= haltonIndexX[g]
            /\ haltonIndexY'[g] >= haltonIndexY[g]]_vars

\* an instance that made calls of all three methods, with several
\* evaluations on each axis
HaltonIndexesWitness ==
    \E g \in Instances :
        /\ Made(g, "getTerrainPointForSprite")
        /\ Len(ret[g].tried) = 2
        /\ calls[g].getSurfacePoint >= 1
        /\ calls[g].get2dPoint >= 1
        /\ Len(evalX[g]) >= 4
        /\ Len(evalY[g]) >= 3

\* C6: no generator is built with a seed outside [0, 1): the constructor
\* throws
InvalidSeedRejected ==
    (options.seed[1] < 0 \/ options.seed[1] >= options.seed[2])
        => pc \in {"new", "threw"}

\* C7: getSurfacePoint on an empty okPoints reports an error
EmptyOkPointsReported ==
    \A g \in Instances :
        (Made(g, "getSurfacePoint") /\ Len(okPoints) = 0)
            => ret[g].result.kind = "error"

\* C10: a point returned by getTerrainPointForSprite has at least 7 of its 8
\* probes on pixels of the mask grid whose mask channel is 255
ProbeIsInsideGrid(p) ==
    /\ 0 <= p[1] /\ p[1] < terrainShape.mask.width
    /\ 0 <= p[2] /\ p[2] < terrainShape.mask.height
    /\ terrainShape.mask.data[p[1] + p[2] * terrainShape.mask.width] = 255

SpriteProbesInsideGrid ==
    \A g \in Instances :
        (Made(g, "getTerrainPointForSprite") /\ ret[g].result.kind = "point") =>
            LET cp == CardinalPoints(ret[g].result.pt, ret[g].sw, ret[g].sh)
            IN  Cardinality({i \in 1..8 : ProbeIsInsideGrid(cp[i])}) >= 7

====
